---- MODULE Spec2Model ----
(***************************************************************************)
(* chksum-reader: Reader<R, H> and AsyncReader<R, H> (src/src/lib.rs).     *)
(* A wrapper pairs an inner byte stream with a hash accumulator; every    *)
(* read is forwarded to the inner stream and the bytes it returned are    *)
(* fed to the accumulator.                                                 *)
(***************************************************************************)
EXTENDS Integers, Sequences, FiniteSets, TLC

\* ------------------------------------------------------------- bounds
MaxLen == 2      \* longest source stream
MaxCap == 2      \* largest caller buffer (slice length / ReadBuf capacity)
MaxHashed == 5   \* reads start only while the hash holds fewer bytes than this
MaxPre == 1      \* longest input already fed to a caller-supplied hash

Byte == {0, 1}
Errors == {"Interrupted", "Other"}

Min(a, b) == IF a < b THEN a ELSE b

SeqsUpTo(n) == UNION {[1..k -> Byte] : k \in 0..n}

Zeros(n) == [i \in 1..n |-> 0]

\* ------------------------------------------------- the hash capability
\* chksum_core::Hash, used through default(), update(&[u8]) and digest().
\* The accumulator is a number: update folds the bytes into it one by one,
\* in order, so that different inputs give different states.
default == 0

RECURSIVE update(_, _)
update(h, bytes) ==
    IF bytes = <<>> THEN h
    ELSE update(h * 3 + Head(bytes) + 1, Tail(bytes))

\* H::digest(&self): finalisation of the current state; the state is kept.
hash_digest(h) == h * 3

\* The number of bytes an accumulator has absorbed.
RECURSIVE Hashed(_)
Hashed(h) == IF h = 0 THEN 0 ELSE 1 + Hashed(h \div 3)

\* ------------------------------------------------------------- state
VARIABLES
    variant,    \* "sync" (Reader) or "async" (AsyncReader)
    src,        \* the bytes of the inner stream
    pos,        \* inner: bytes already taken from the stream
    avail,      \* inner (BufRead): bytes held in its internal buffer
    hash,       \* the wrapper's hash field
    wrapped,    \* TRUE until into_inner consumed the wrapper
    buf,        \* the caller's buffer after the last read call
    filled,     \* ReadBuf: length of its filled region (0 for a slice)
    pending,    \* async: the last poll of the current read returned Pending
    ret,        \* what the last operation reported to the caller
    innerRet,   \* what the inner stream reported to the last operation
    ctor,       \* "new" or "with_hash"
    pre,        \* the input the caller-supplied accumulator had absorbed
    hash0,      \* the accumulator the wrapper was constructed with
    delivered,  \* bytes the inner stream delivered through the wrapper's reads
    skipped,    \* bytes the inner stream advanced over through consume
    readStart,  \* hash when the current async read was first polled
    prevHash,   \* hash before the last operation
    prevPos,    \* inner position before the last operation
    twin,       \* async: the hash of a Reader given the same deliveries
    fresh,      \* async: every poll so far got a ReadBuf with nothing filled
    paired      \* the hash of with_hash(inner, H::default()) given the same calls

vars == <<variant, src, pos, avail, hash, wrapped, buf, filled, pending, ret,
          innerRet, ctor, pre, hash0, delivered, skipped, readStart, prevHash,
          prevPos, twin, fresh, paired>>

Rem == Len(src) - pos

\* What an operation reported, with the calls it made on its two fields:
\* reads on the inner stream and updates of the hash.
Result(op, kind, n, err, data, reads, updates) ==
    [op |-> op, kind |-> kind, n |-> n, err |-> err, data |-> data,
     reads |-> reads, updates |-> updates]

\* What the inner stream reported: io::Result<usize> / Poll<io::Result<()>>.
Inner(kind, n, err) == [kind |-> kind, n |-> n, err |-> err]

NoInner == Inner("none", 0, "none")

\* ------------------------------------------------------ construction
\* Reader::with_hash / AsyncReader::with_hash: pure pairing.
with_hash(inner, h) == [inner |-> inner, hash |-> h]

\* Variant of new: the accumulator is not the default one.
new_Prefed(inner) == with_hash(inner, update(default, <<0>>))

\* Reader::new / AsyncReader::new: with_hash(inner, H::default()).
new(inner) == with_hash(inner, default)

Init ==
    /\ variant \in {"sync", "async"}
    /\ src \in SeqsUpTo(MaxLen)
    /\ ctor \in {"new", "with_hash"}
    /\ pre \in IF ctor = "new" THEN {<<>>} ELSE SeqsUpTo(MaxPre)
    /\ hash = IF ctor = "new" THEN new(src).hash
              ELSE with_hash(src, update(default, pre)).hash
    /\ hash0 = hash
    /\ pos = 0
    /\ avail = 0
    /\ wrapped = TRUE
    /\ buf = <<>>
    /\ filled = 0
    /\ pending = FALSE
    /\ ret = Result("construct", "ok", 0, "none", <<>>, 0, 0)
    /\ innerRet = NoInner
    /\ delivered = <<>>
    /\ skipped = 0
    /\ readStart = hash
    /\ prevHash = hash
    /\ prevPos = 0
    /\ twin = hash
    /\ fresh = TRUE
    /\ paired = with_hash(src, default).hash

\* ------------------------------------------------- the inner stream
\* Byte counts a successful inner read may return for `room` free bytes:
\* 0 only at end of stream or for no room, else any partial or full count.
InnerCounts(room) ==
    IF room = 0 \/ Rem = 0 THEN {0} ELSE 1..Min(room, Rem)

\* The buffer after the inner stream wrote its next n bytes behind `at`.
Fill(b, at, n) ==
    [i \in 1..Len(b) |-> IF i > at /\ i <= at + n THEN src[pos + (i - at)] ELSE b[i]]

\* The outcomes of one inner read into buffer b whose first `at` bytes are
\* taken: n bytes delivered, or an error, which delivers nothing but may
\* have written into the free part of the buffer.
InnerOutcomes(b, at) ==
    {[kind |-> "ok", n |-> n, err |-> "none", buf |-> Fill(b, at, n)] :
        n \in InnerCounts(Len(b) - at)}
    \cup
    {[kind |-> "err", n |-> 0, err |-> e, buf |-> Fill(b, at, Min(Len(b) - at, Rem))] :
        e \in Errors}

\* An inner poll_read may also find the stream not ready.
InnerPolls(b, at) ==
    InnerOutcomes(b, at)
    \cup {[kind |-> "pending", n |-> 0, err |-> "none", buf |-> b]}

\* The inner BufRead's internal buffer after a read took n bytes.
AvailAfter(n) == IF n >= avail THEN 0 ELSE avail - n

\* ------------------------------------------------------ Reader::read
\* Variants of the update of line 162: the whole buffer instead of buf[..n],
\* no update, the slice in reverse order.
ReadUpdate_WholeBuffer(h, b, n) == update(h, b)

ReadUpdate_Skipped(h, b, n) == h

Reverse(q) == [i \in 1..Len(q) |-> q[Len(q) + 1 - i]]

ReadUpdate_Reversed(h, b, n) == update(h, Reverse(SubSeq(b, 1, n)))

\* line 162: self.hash.update(&buf[..n])
ReadUpdate(h, b, n) == update(h, SubSeq(b, 1, n))

\* Variant of the error path: the buffer is hashed although the read failed.
ReadFailed_HashesBuffer(h, b) == update(h, b)

\* line 161: `?` returns before the hash is touched
ReadFailed(h, b) == h

\* Variants of the return: an interrupted inner read is tried a second time
\* before the error is handed back; update is not called for an empty slice.
ReadReturn_Retried(r) ==
    IF r.kind = "err"
    THEN Result("read", "err", 0, r.err, <<>>, IF r.err = "Interrupted" THEN 2 ELSE 1, 0)
    ELSE Result("read", "ok", r.n, "none", SubSeq(r.buf, 1, r.n), 1, 1)

ReadReturn_SkipsEmpty(r) ==
    IF r.kind = "err" THEN Result("read", "err", 0, r.err, <<>>, 1, 0)
    ELSE Result("read", "ok", r.n, "none", SubSeq(r.buf, 1, r.n), 1,
                IF r.n = 0 THEN 0 ELSE 1)

\* line 161 `?` hands the inner error back; line 163 Ok(n)
ReadReturn(r) ==
    IF r.kind = "err" THEN Result("read", "err", 0, r.err, <<>>, 1, 0)
    ELSE Result("read", "ok", r.n, "none", SubSeq(r.buf, 1, r.n), 1, 1)

Read ==
    /\ variant = "sync" /\ wrapped
    /\ Hashed(hash) < MaxHashed
    /\ \E cap \in 0..MaxCap : \E r \in InnerOutcomes(Zeros(cap), 0) :
         /\ innerRet' = Inner(r.kind, r.n, r.err)
         /\ buf' = r.buf
         /\ pos' = pos + r.n
         /\ avail' = AvailAfter(r.n)
         /\ delivered' = delivered \o SubSeq(r.buf, 1, r.n)
         /\ hash' = IF r.kind = "ok" THEN ReadUpdate(hash, r.buf, r.n)
                    ELSE ReadFailed(hash, r.buf)
         /\ ret' = ReadReturn(r)
         /\ paired' = IF r.kind = "ok" THEN ReadUpdate(paired, r.buf, r.n)
                      ELSE ReadFailed(paired, r.buf)
    /\ prevHash' = hash
    /\ prevPos' = pos
    /\ UNCHANGED <<variant, src, wrapped, filled, pending, ctor, pre, hash0,
                   skipped, readStart,
                   twin, fresh>>

\* ------------------------------------------- impl BufRead for Reader
\* Variant of fill_buf: the peeked bytes are hashed.
FillBufHash_Updates(h, bytes) == update(h, bytes)

\* lines 176-178: only self.inner.fill_buf(); the hash is not an operand
FillBufHash(h, bytes) == h

\* The inner stream refills its internal buffer only when it is empty.
FillBuf ==
    /\ variant = "sync" /\ wrapped
    /\ \/ \E k \in (IF avail > 0 THEN {avail} ELSE InnerCounts(MaxCap)) :
            LET peeked == SubSeq(src, pos + 1, pos + k) IN
            /\ avail' = k
            /\ hash' = FillBufHash(hash, peeked)
            /\ paired' = FillBufHash(paired, peeked)
            /\ ret' = Result("fill_buf", "ok", k, "none", peeked, 0, 0)
            /\ innerRet' = Inner("ok", k, "none")
       \/ \E e \in Errors :
            /\ avail = 0
            /\ hash' = hash
            /\ paired' = paired
            /\ ret' = Result("fill_buf", "err", 0, e, <<>>, 0, 0)
            /\ innerRet' = Inner("err", 0, e)
            /\ UNCHANGED avail
    /\ prevHash' = hash
    /\ prevPos' = pos
    /\ UNCHANGED <<variant, src, pos, wrapped, buf, filled, pending, ctor, pre,
                   hash0, delivered, skipped, readStart,
                   twin, fresh>>

\* Variant of consume: the bytes passed over are hashed.
ConsumeHash_Updates(h, bytes) == update(h, bytes)

\* lines 172-174: only self.inner.consume(amt); the hash is not an operand
ConsumeHash(h, bytes) == h

\* amt is at most the length of what fill_buf returned.
Consume ==
    /\ variant = "sync" /\ wrapped
    /\ \E amt \in 0..avail :
         LET passed == SubSeq(src, pos + 1, pos + amt) IN
         /\ pos' = pos + amt
         /\ avail' = avail - amt
         /\ skipped' = skipped + amt
         /\ hash' = ConsumeHash(hash, passed)
         /\ paired' = ConsumeHash(paired, passed)
         /\ ret' = Result("consume", "ok", amt, "none", passed, 0, 0)
    /\ innerRet' = NoInner
    /\ prevHash' = hash
    /\ prevPos' = pos
    /\ UNCHANGED <<variant, src, wrapped, buf, filled, pending, ctor, pre, hash0,
                   delivered, readStart,
                   twin, fresh>>

\* ------------------------------------------- AsyncReader::poll_read
\* Variant of line 235: Ready(Ok) is handed back without the update.
PollUpdate_Skipped(h, b, f) == h

\* Variant of line 235: the whole buffer, unfilled part included, is hashed.
PollUpdate_WholeBuffer(h, b, f) == update(h, b)

\* line 235: hash.update(buf.filled())
PollUpdate(h, b, f) == update(h, SubSeq(b, 1, f))

\* Variants of line 238: the filled region, or the whole buffer, is hashed
\* although the poll did not complete with Ok.
PollPassed_HashesFilled(h, b, f) == update(h, SubSeq(b, 1, f))

PollPassed_HashesBuffer(h, b, f) == update(h, b)

\* line 238: `poll => poll`, the hash is not touched
PollPassed(h, b, f) == h

\* Variant of line 238: an inner error is replaced by one of the wrapper's.
PollReturn_WrapsError(r, f) ==
    IF r.kind = "ok"
    THEN Result("poll_read", "ok", r.n, "none", SubSeq(r.buf, f + 1, f + r.n), 1, 1)
    ELSE Result("poll_read", r.kind, 0, IF r.kind = "err" THEN "Other" ELSE r.err, <<>>, 1, 0)

\* line 236 Poll::Ready(Ok(())); line 238 hands Pending and Ready(Err(e)) back
PollReturn(r, f) ==
    IF r.kind = "ok"
    THEN Result("poll_read", "ok", r.n, "none", SubSeq(r.buf, f + 1, f + r.n), 1, 1)
    ELSE Result("poll_read", r.kind, 0, r.err, <<>>, 1, 0)

\* The ReadBuf of a poll: the one the suspended read holds, else either a
\* fresh one or the caller's previous one with its filled region kept.
PollBufs ==
    IF pending THEN {[data |-> buf, filled |-> filled]}
    ELSE {[data |-> Zeros(c), filled |-> 0] : c \in 0..MaxCap}
         \cup {[data |-> buf, filled |-> filled]}

PollRead ==
    /\ variant = "async" /\ wrapped
    /\ Hashed(hash) < MaxHashed
    /\ \E rb \in PollBufs : \E r \in InnerPolls(rb.data, rb.filled) :
         /\ innerRet' = Inner(r.kind, r.n, r.err)
         /\ buf' = r.buf
         /\ filled' = rb.filled + r.n
         /\ pos' = pos + r.n
         /\ delivered' = delivered \o SubSeq(r.buf, rb.filled + 1, rb.filled + r.n)
         /\ hash' = IF r.kind = "ok" THEN PollUpdate(hash, r.buf, rb.filled + r.n)
                    ELSE PollPassed(hash, r.buf, rb.filled)
         /\ pending' = (r.kind = "pending")
         /\ ret' = PollReturn(r, rb.filled)
         /\ twin' = IF r.kind = "ok"
                    THEN ReadUpdate(twin, SubSeq(r.buf, rb.filled + 1, Len(r.buf)), r.n)
                    ELSE IF r.kind = "err"
                    THEN ReadFailed(twin, SubSeq(r.buf, rb.filled + 1, Len(r.buf)))
                    ELSE twin
         /\ fresh' = (fresh /\ rb.filled = 0)
         /\ paired' = IF r.kind = "ok" THEN PollUpdate(paired, r.buf, rb.filled + r.n)
                      ELSE PollPassed(paired, r.buf, rb.filled)
    /\ readStart' = IF pending THEN readStart ELSE hash
    /\ prevHash' = hash
    /\ prevPos' = pos
    /\ UNCHANGED <<variant, src, avail, wrapped, ctor, pre, hash0, skipped>>

\* The caller drops a suspended read (the future holding the ReadBuf); the
\* wrapper keeps no state for it.
DropRead ==
    /\ variant = "async" /\ wrapped /\ pending
    /\ pending' = FALSE
    /\ ret' = Result("drop", "ok", 0, "none", <<>>, 0, 0)
    /\ innerRet' = NoInner
    /\ prevHash' = hash
    /\ prevPos' = pos
    /\ UNCHANGED <<variant, src, pos, avail, hash, wrapped, buf, filled, ctor, pre,
                   hash0, delivered, skipped, readStart,
                   twin, fresh, paired>>

\* ------------------------------------------------ digest, into_inner
\* lines 150-152 / 220-222: self.hash.digest() through a shared reference.
digest(w) == hash_digest(w.hash)

\* Variant of digest: taking the digest resets the accumulator.
DigestHash_Resets(h) == default

\* lines 150-151: digest(&self) reads the hash through a shared reference
DigestHash(h) == h

Digest ==
    /\ wrapped /\ ~pending
    /\ hash' = DigestHash(hash)
    /\ paired' = DigestHash(paired)
    /\ ret' = Result("digest", "ok", digest([inner |-> src, hash |-> hash]), "none", <<>>, 0, 0)
    /\ innerRet' = NoInner
    /\ prevHash' = hash
    /\ prevPos' = pos
    /\ UNCHANGED <<variant, src, pos, avail, wrapped, buf, filled, pending,
                   ctor, pre, hash0, delivered, skipped, readStart,
                   twin, fresh>>

\* Variants of into_inner: the stream is handed back at its start, or with
\* its internal buffer discarded.
into_inner_Rewound(w) == [pos |-> 0, avail |-> 0]

into_inner_Drained(w) == [pos |-> w.inner.pos + w.inner.avail, avail |-> 0]

\* lines 143-146 / 213-216: the stream the wrapper held, as it is.
into_inner(w) == w.inner

IntoInner ==
    /\ wrapped /\ ~pending
    /\ LET r == into_inner([inner |-> [pos |-> pos, avail |-> avail], hash |-> hash]) IN
         /\ pos' = r.pos
         /\ avail' = r.avail
    /\ wrapped' = FALSE
    /\ ret' = Result("into_inner", "ok", 0, "none", <<>>, 0, 0)
    /\ innerRet' = NoInner
    /\ prevHash' = hash
    /\ prevPos' = pos
    /\ UNCHANGED <<variant, src, hash, buf, filled, pending, ctor, pre, hash0,
                   delivered, skipped, readStart,
                   twin, fresh, paired>>

\* The caller reads from the stream into_inner returned.
InnerRead ==
    /\ ~wrapped
    /\ \E cap \in 1..MaxCap : \E n \in InnerCounts(cap) :
         /\ buf' = Fill(Zeros(cap), 0, n)
         /\ filled' = 0
         /\ pos' = pos + n
         /\ avail' = AvailAfter(n)
         /\ ret' = Result("inner_read", "ok", n, "none", SubSeq(src, pos + 1, pos + n), 1, 0)
         /\ innerRet' = Inner("ok", n, "none")
    /\ prevHash' = hash
    /\ prevPos' = pos
    /\ UNCHANGED <<variant, src, hash, wrapped, pending, ctor, pre, hash0, delivered,
                   skipped, readStart,
                   twin, fresh, paired>>

Next ==
    \/ Read
    \/ FillBuf
    \/ Consume
    \/ PollRead
    \/ DropRead
    \/ Digest
    \/ IntoInner
    \/ InnerRead

Spec == Init /\ [][Next]_vars

\* ---------------------------------------------------------- properties
\* The bytes an accumulator has absorbed, oldest first.
RECURSIVE Absorbed(_)
Absorbed(h) ==
    IF h = 0 THEN <<>> ELSE Append(Absorbed(h \div 3), (h % 3) - 1)

IsSuffix(s, t) ==
    /\ Len(s) <= Len(t)
    /\ SubSeq(t, Len(t) - Len(s) + 1, Len(t)) = s

\* C1: in every state of the synchronous wrapper the hash equals the
\* construction-time accumulator fed, in call order, exactly the slices
\* buf[0..n] its successful reads returned, and nothing else.
C1_SyncHashIsReturnedSlices ==
    variant = "sync" => hash = update(hash0, delivered)

\* A partial read (1 byte into a 2-byte buffer) completing a 2-byte delivery.
C1_Witness ==
    /\ variant = "sync"
    /\ ret.op = "read" /\ ret.kind = "ok"
    /\ Len(buf) = 2 /\ ret.n = 1
    /\ Len(delivered) = 2
    /\ hash # hash0

\* C2: in every state of the asynchronous wrapper the hash equals the
\* construction-time accumulator fed exactly the bytes the inner stream newly
\* delivered through poll_read, each once and in order.
C2_AsyncHashIsDeliveredBytes ==
    variant = "async" => hash = update(hash0, delivered)

\* C3: once a stream has been read to its end through the synchronous
\* wrapper's reads, the digest is that of the construction-time accumulator
\* fed the whole stream in one update, however the reads were split.
C3_DigestIndependentOfSplit ==
    (variant = "sync" /\ pos = Len(src) /\ Len(delivered) = Len(src))
        => hash_digest(hash) = hash_digest(update(hash0, src))

\* A fresh wrapper that took a 2-byte stream in two reads, the last of 1 byte.
C3_Witness ==
    /\ variant = "sync" /\ ctor = "new"
    /\ Len(src) = 2 /\ pos = 2 /\ Len(delivered) = 2
    /\ ret.op = "read" /\ ret.kind = "ok" /\ ret.n = 1
    /\ src[1] # src[2]

\* C4: when the inner read of a synchronous read fails, the wrapper returns
\* that same error, the hash is what it was before the call, and the digest
\* is that of exactly the bytes delivered before the failure.
C4_SyncErrorLeavesHash ==
    (variant = "sync" /\ ret.op = "read" /\ innerRet.kind = "err")
        => /\ ret.kind = "err" /\ ret.err = innerRet.err
           /\ hash = prevHash
           /\ hash_digest(hash) = hash_digest(update(hash0, delivered))

\* A read that failed after bytes had been delivered, the failed inner call
\* having written into the caller's buffer.
C4_Witness ==
    /\ variant = "sync"
    /\ ret.op = "read" /\ ret.kind = "err" /\ ret.err = "Interrupted"
    /\ delivered # <<>>
    /\ \E i \in 1..Len(buf) : buf[i] # 0

\* C5: when the inner poll_read completes with Ready(Err(e)), poll_read
\* returns Ready(Err(e)) with the same e and the hash is what it was before
\* the poll.
C5_AsyncErrorLeavesHash ==
    (variant = "async" /\ ret.op = "poll_read" /\ innerRet.kind = "err")
        => /\ ret.kind = "err" /\ ret.err = innerRet.err
           /\ hash = prevHash

\* A failed poll on a ReadBuf that already held filled bytes.
C5_Witness ==
    /\ variant = "async"
    /\ ret.op = "poll_read" /\ ret.kind = "err" /\ ret.err = "Other"
    /\ filled > 0
    /\ delivered # <<>>

\* C6: a poll_read that returns Pending leaves the hash unchanged; while a
\* read is suspended, and after it was dropped without completing, the hash
\* and the digest are what they were when the read started.
C6_PendingAndDropLeaveHash ==
    /\ (ret.op = "poll_read" /\ ret.kind = "pending") => hash = prevHash
    /\ pending => hash = readStart
    /\ ret.op = "drop"
          => /\ hash = readStart
             /\ hash_digest(hash) = hash_digest(readStart)

\* A read on a non-empty ReadBuf dropped while suspended, after earlier
\* reads had delivered bytes.
C6_Witness ==
    /\ ret.op = "drop"
    /\ Len(buf) > 0
    /\ delivered # <<>>
    /\ pos < Len(src)

\* C7: in both variants, in every state in which the caller has seen a read
\* complete, the hash has already absorbed, on top of its value before the
\* call, bytes that end with the bytes of that read; the next read starts
\* from that hash.
C7_UpdateBeforeCompletion ==
    (ret.op \in {"read", "poll_read"} /\ ret.kind = "ok")
        => LET added == SubSeq(Absorbed(hash), Hashed(prevHash) + 1, Hashed(hash)) IN
           /\ hash = update(prevHash, added)
           /\ IsSuffix(ret.data, added)

\* A completed asynchronous read that delivered bytes.
C7_Witness ==
    /\ variant = "async"
    /\ ret.op = "poll_read" /\ ret.kind = "ok" /\ ret.n = 2
    /\ hash # prevHash

\* C8: a wrapper built with with_hash from an accumulator that had absorbed
\* Y, after reading X, has the digest of a fresh accumulator fed Y then X.
C8_ResumedHashing ==
    ctor = "with_hash"
        => hash_digest(hash) = hash_digest(update(default, pre \o delivered))

\* C8, synchronous wrapper only: the same statement for Reader.
C8_SyncResumedHashing ==
    (variant = "sync" /\ ctor = "with_hash")
        => hash_digest(hash) = hash_digest(update(default, pre \o delivered))

\* C9: into_inner hands the inner stream back at the position the wrapper's
\* reads and consumes left it, without reading from it; a read on the
\* returned stream starts at the first byte the wrapper did not pass.
C9_IntoInnerKeepsPosition ==
    /\ ret.op = "into_inner"
          => /\ pos = prevPos
             /\ pos = Len(delivered) + skipped
             /\ ret.reads = 0
    /\ (ret.op = "inner_read" /\ ret.n > 0 /\ prevPos = Len(delivered) + skipped)
          => ret.data[1] = src[Len(delivered) + skipped + 1]

\* The first read on a returned stream, the wrapper having delivered one
\* byte of several.
C9_Witness ==
    /\ ~wrapped
    /\ ret.op = "inner_read" /\ ret.n > 0
    /\ Len(delivered) = 1
    /\ prevPos = Len(delivered) + skipped

\* C10: fill_buf and consume leave the hash as it was, so after them the
\* hash still holds exactly the bytes the wrapper's reads returned: peeked
\* and skipped bytes are not in it.
C10_PeekAndConsumeDoNotHash ==
    ret.op \in {"fill_buf", "consume"}
        => /\ hash = prevHash
           /\ hash = update(hash0, delivered)
           /\ ret.updates = 0

\* A consume that skipped bytes after a read had delivered some.
C10_Witness ==
    /\ ret.op = "consume" /\ ret.n > 0
    /\ delivered # <<>>
    /\ skipped > 0

\* C11: digest() leaves the hash and the inner stream as they were and makes
\* no call on either; a second digest() right after it returns the same
\* value, and for Reader that value is the digest of the bytes delivered so
\* far, however many digests were taken before.
C11_DigestIsPureObservation ==
    ret.op = "digest"
        => /\ hash = prevHash
           /\ pos = prevPos
           /\ ret.reads = 0 /\ ret.updates = 0
           /\ ret.n = digest([inner |-> src, hash |-> hash])
           /\ variant = "sync" => ret.n = hash_digest(update(hash0, delivered))

\* A digest taken in mid-stream, bytes delivered and bytes still to come.
C11_Witness ==
    /\ ret.op = "digest"
    /\ delivered # <<>>
    /\ pos < Len(src)
    /\ hash # default

\* C12: every read and every poll_read makes exactly one read call on the
\* inner stream, into the caller's buffer, also when that call fails: the
\* stream advances by exactly the count that call reported, which fits the
\* room the caller offered. Construction, digest, into_inner and a dropped
\* read make no inner read and leave the position alone, so the position of a
\* wrapped stream is the bytes delivered to the caller plus those it consumed.
C12_OneInnerReadPerRead ==
    /\ ret.op \in {"read", "poll_read"}
          => /\ ret.reads = 1
             /\ innerRet.kind # "none"
             /\ pos = prevPos + innerRet.n
             /\ innerRet.n <= Len(buf) - (filled - innerRet.n)
             /\ innerRet.kind # "ok" => pos = prevPos
    /\ ret.op \in {"construct", "digest", "into_inner", "drop"}
          => /\ ret.reads = 0
             /\ innerRet = NoInner
             /\ pos = prevPos
    /\ ret.op = "construct" => pos = 0
    /\ wrapped => pos = Len(delivered) + skipped

\* An interrupted read after bytes were delivered, more bytes still to come:
\* a retry or a read-ahead would have moved the stream.
C12_Witness ==
    /\ ret.op \in {"read", "poll_read"}
    /\ ret.kind = "err" /\ ret.err = "Interrupted"
    /\ Len(buf) > 0
    /\ delivered # <<>>
    /\ pos < Len(src)

\* C13: as long as every poll_read was given a ReadBuf with nothing filled,
\* the hash of the asynchronous wrapper equals, after every poll, the hash a
\* Reader holds after reading the same chunks (twin), and polls that returned
\* Pending change neither.
C13_AsyncMatchesSync ==
    (variant = "async" /\ fresh)
        => /\ hash = twin
           /\ twin = update(hash0, delivered)
           /\ (ret.op = "poll_read" /\ ret.kind = "pending") => hash = prevHash

\* A poll that completed with one byte into a fresh 2-byte ReadBuf, the
\* second chunk of the stream.
C13_Witness ==
    /\ variant = "async" /\ fresh
    /\ ret.op = "poll_read" /\ ret.kind = "ok" /\ ret.n = 1
    /\ Len(buf) = 2 /\ filled = 1
    /\ Len(delivered) = 2
    /\ readStart = prevHash /\ hash # prevHash

\* C14: new(inner) builds the wrapper with_hash(inner, H::default()) builds:
\* the same start state, and after any calls the hash of the wrapper built by
\* new equals that of one built by with_hash(inner, H::default()) and given
\* the same calls (paired), so every digest() returns the same value.
C14_NewIsWithHashDefault ==
    ctor = "new"
        => /\ new(src) = with_hash(src, default)
           /\ hash0 = with_hash(src, default).hash
           /\ hash = paired
           /\ ret.op = "construct" => (hash = with_hash(src, default).hash /\ pos = 0)
           /\ ret.op = "digest" => ret.n = digest([inner |-> src, hash |-> paired])

\* A digest taken from a wrapper built by new after it delivered two bytes.
C14_Witness ==
    /\ ctor = "new"
    /\ ret.op = "digest"
    /\ Len(delivered) = 2
    /\ hash # default

\* C15: a successful read of the synchronous wrapper that returns 0, for a
\* zero-capacity buffer or at end of stream, has made its one update call,
\* with the empty slice, and left the hash and the digest as they were; a
\* wrapper built by new over an empty source then has the digest of the
\* empty input, and reads at end of stream keep the digest of the bytes
\* delivered before.
C15_ZeroByteRead ==
    (variant = "sync" /\ ret.op = "read" /\ ret.kind = "ok" /\ ret.n = 0)
        => /\ ret.updates = 1
           /\ ret.data = <<>>
           /\ hash = prevHash
           /\ hash_digest(hash) = hash_digest(prevHash)
           /\ hash_digest(hash) = hash_digest(update(hash0, delivered))
           /\ (ctor = "new" /\ src = <<>>)
                 => hash_digest(hash) = hash_digest(update(default, <<>>))

\* A read into a buffer with room that returned 0 at the end of a stream
\* whose bytes had all been delivered.
C15_Witness ==
    /\ variant = "sync"
    /\ ret.op = "read" /\ ret.kind = "ok" /\ ret.n = 0
    /\ Len(buf) > 0
    /\ pos = Len(src)
    /\ delivered # <<>>
    /\ prevPos = pos

\* C16: a read or poll_read reports exactly what its one inner read reported
\* (the count, the error, or Pending), so it fails only when the inner read
\* failed; the bytes it left in the caller's buffer are the next bytes of the
\* stream, unaltered and in stream order, behind what the buffer already
\* held; and as long as nothing was consumed the bytes delivered so far are
\* the stream's first bytes, none dropped.
C16_ReadResultIsInnerResult ==
    /\ ret.op \in {"read", "poll_read"}
          => LET at == filled - (IF variant = "async" THEN ret.n ELSE 0) IN
             /\ ret.kind = innerRet.kind
             /\ ret.n = innerRet.n
             /\ ret.err = innerRet.err
             /\ ret.kind = "err" <=> innerRet.kind = "err"
             /\ ret.kind = "ok"
                   => /\ at + ret.n <= Len(buf)
                      /\ SubSeq(buf, at + 1, at + ret.n)
                            = SubSeq(src, prevPos + 1, prevPos + ret.n)
                      /\ ret.data = SubSeq(src, prevPos + 1, prevPos + ret.n)
                      /\ IsSuffix(ret.data, delivered)
    /\ (wrapped /\ skipped = 0) => delivered = SubSeq(src, 1, pos)

\* An interrupted poll on a ReadBuf that held a filled byte, all of the
\* stream delivered before.
C16_Witness ==
    /\ variant = "async"
    /\ ret.op = "poll_read" /\ ret.kind = "err" /\ ret.err = "Interrupted"
    /\ filled = 1
    /\ Len(delivered) = Len(src)

\* C17: under any interleaving of read, fill_buf and consume on a Reader over
\* a buffered stream, the hash is the construction-time accumulator fed
\* exactly the bytes the read calls returned, in order; the number of bytes
\* hashed since construction is at most the number the stream's position
\* advanced, short of it by the bytes consume skipped, hence strictly less
\* once a consume with amt > 0 skipped bytes.
C17_MixedBufferedUse ==
    (variant = "sync" /\ wrapped)
        => LET hashed == Hashed(hash) - Hashed(hash0) IN
           /\ hash = update(hash0, delivered)
           /\ hashed = Len(delivered)
           /\ hashed <= pos
           /\ pos - hashed = skipped
           /\ skipped > 0 => hashed < pos
           /\ (ret.op = "consume" /\ ret.n > 0) => hashed < pos

\* A read that returned a byte after a consume had skipped one.
C17_Witness ==
    /\ variant = "sync" /\ wrapped
    /\ ret.op = "read" /\ ret.kind = "ok" /\ ret.n > 0
    /\ skipped > 0
    /\ Hashed(hash) - Hashed(hash0) < pos

====
